---- MODULE Spec2Model ----
(***************************************************************************)
(* Model of src/main.py: the report pipeline's scheduler (main), the       *)
(* per-job executor (run_one_job), the query runner (execute_query), the   *)
(* notifier (send_mail_gmail_api) and the audit log (log_append /          *)
(* log_print).                                                             *)
(*                                                                         *)
(* Thread 0 is the main thread; thread j in 1..N is the run_one_job call   *)
(* submitted for the j-th line of the job list.  pc[t] is the statement    *)
(* thread t is at.  A pc in LogSites is a call of log_append that has not  *)
(* returned yet: the thread first takes log_lock (LogEnter), then writes   *)
(* the row or raises, in the action of the function the call is made from. *)
(*                                                                         *)
(* Spec: job lists of up to MaxJobs lines.  SpecPool: job lists longer     *)
(* than the pool.  SpecRerun: the program run again on the log an earlier  *)
(* run left.  SpecPoolFair: SpecPool under fair scheduling.                *)
(***************************************************************************)
EXTENDS Integers, Sequences, FiniteSets, TLC

\* ------------------------------------------------------------------ bounds
MaxJobs == 2        \* longest job list of Spec
MaxFaults == 2      \* environment failures (collaborator or log write) per run
MaxClock == 1       \* seconds the clock of now_ts advances during a run
PoolExtra == 1      \* jobs beyond max_workers in the long job lists of SpecPool
MaxRuns == 2        \* times the program is run on the same logs.csv in SpecRerun

\* ------------------------------------------------------- program constants
max_workers == 5    \* ThreadPoolExecutor(max_workers=5)
RowsBeforeDispatch == 2   \* the rows main writes before the pool, secrets from AWS

Names == {"sales.sql", "missing.sql"}   \* job names a list line can hold
Scripts == {"sales.sql"}                \* the files present under Scripts/
MAIN == 0
Unlimited == -1                         \* the disk does not fill up

VARIABLES
    jobs,          \* the non-blank lines of querymod.txt, in order
    listExists,    \* querymod.txt exists
    secretSrc,     \* where the secrets can be had: "aws", "local" or "none"
    clock,         \* the second now_ts reads
    faults,        \* collaborator calls that have raised so far
    logFaults,     \* log writes that have raised so far, the disk not being full
    pc,            \* pc[t]: position of thread t
    lock,          \* the threads inside the `with log_lock` block
    write_header,  \* write_header[t]: the local of log_append in thread t
    pos,           \* pos[t]: the end of logs.csv, in rows, when thread t opened it
    logRoom,       \* data rows the disk has room for in logs.csv, or Unlimited
    runs,          \* times the program has been started
    logExists,     \* logs.csv exists
    logHeaders,    \* header rows in logs.csv
    logRows,       \* data rows in logs.csv
    audit,         \* audit[t]: the rows thread t wrote, in file order; a row is
                   \* <<status, k>>: k is the list entry its job column names
                   \* (by job_id, or by name in main's rows), 0 if it names none
    lastRow,       \* the last row of logs.csv
    submitted,     \* number of executor.submit calls made
    ts,            \* ts[j]: the second in run j's job_id
    pending,       \* pending[j]: execute_query is unwinding with an exception
    exc,           \* exc[j]: what raised the exception run j's except block
                   \* caught ("none": it has caught none)
    con,           \* con[j]: "none", "open" or "closed"
    cur,           \* cur[j]: "none", "open" or "closed"
    queries,       \* queries[j]: number of execute_query calls of run j
    fs,            \* files under Output/: <<name, ts, ext>>
    wrote,         \* wrote[j]: the artifact kinds run j wrote
    mails,         \* mails[j]: recipient lists of run j's send_mail_gmail_api calls
    current,       \* the job main's as_completed loop is at (0: none)
    collected      \* jobs whose future main has handled

vars == <<jobs, listExists, secretSrc, logRoom, runs, clock, faults, logFaults, pc, lock,
          write_header, pos,
          logExists, logHeaders, logRows, audit, lastRow, submitted,
          ts, pending, exc, con, cur, queries, fs, wrote, mails, current,
          collected>>

envVars == <<jobs, listExists, secretSrc, logRoom, runs>>
logVars == <<logExists, logHeaders, logRows, audit, lastRow>>
lockVars == <<lock, write_header, pos>>
poolVars == <<submitted, current, collected>>
dbVars == <<pending, con, cur, queries>>
outVars == <<fs, wrote, mails>>

N == Len(jobs)
Runs == 1..N
Threads == 0..N

\* ------------------------------------------------------------- positions
\* calls of log_append (directly or through log_print), by caller
MainLogSites == {"main_info_log", "secret_warn_log", "main_fatal_log",
                 "main_found_log", "thread_log", "thread_err_log", "summary_log"}
JobLogSites == {"job_start_log", "file_csv_log", "file_zip_log", "success_log",
                "job_done_log", "job_error_log", "fail_log"}
QueryLogSites == {"db_connect_log", "db_exec_log", "db_close_log"}
MailLogSites == {"mail_attach_log", "mail_sent_log", "mail_error_log"}
LogSites == MainLogSites \cup JobLogSites \cup QueryLogSites \cup MailLogSites

\* a future is done once its run_one_job call returned or raised
Returned(j) == pc[j] = "returned"
Raised(j) == pc[j] = "raised"
Done(j) == Returned(j) \/ Raised(j)
Started(j) == pc[j] \notin {"unsubmitted", "queued"}
Running(j) == Started(j) /\ ~Done(j)

\* ------------------------------------------------------------ audit log
\* log_lock can be taken
LockFreeAlways == TRUE

LockFree == lock = {}

\* with log_lock: write_header = not LOG_CSV.exists()
\*                with open(LOG_CSV, "a", ...) as f: writer = csv.writer(f)
LogEnter(t) ==
    /\ pc[t] \in LogSites
    /\ t \notin lock
    /\ LockFree
    /\ lock' = lock \cup {t}
    /\ write_header' = [write_header EXCEPT ![t] = ~logExists]
    /\ pos' = [pos EXCEPT ![t] = logRows]
    /\ logExists' = TRUE
    /\ UNCHANGED <<envVars, clock, faults, logFaults, pc, logHeaders, logRows, audit,
                   lastRow, poolVars, ts, dbVars, exc, outVars>>

\* leaving the with blocks of log_append, normally or by an exception
Release(t) ==
    /\ lock' = lock \ {t}
    /\ write_header' = [write_header EXCEPT ![t] = FALSE]
    /\ pos' = [pos EXCEPT ![t] = 0]

\* the disk is full: every write to logs.csv raises OSError
DiskFull == logRoom # Unlimited /\ logRows >= logRoom

\* if write_header: writer.writerow(header)
\* writer.writerow(row), flushed when the file is closed.  The row lands at
\* the end of the file: the end as it was when this thread opened the file,
\* or as it is now (the two differ only if another thread wrote in between).
WriteRow(t, stage, k) ==
    /\ ~DiskFull
    /\ logHeaders' = logHeaders + (IF write_header[t] THEN 1 ELSE 0)
    /\ \E p \in {pos[t], logRows} : logRows' = (IF p = logRows THEN logRows + 1 ELSE logRows)
    /\ audit' = [audit EXCEPT ![t] = Append(@, <<stage, k>>)]
    /\ lastRow' = <<stage, k>>
    /\ UNCHANGED <<logExists, faults, logFaults>>
    /\ Release(t)

\* open or the flush raises OSError: nothing is written.  If the file was
\* absent, it stays absent when open raised, and is there, empty, when the
\* flush raised.
WriteFails(t) ==
    /\ \/ DiskFull /\ UNCHANGED logFaults
       \/ ~DiskFull /\ faults + logFaults < MaxFaults /\ logFaults' = logFaults + 1
    /\ logExists' \in (IF write_header[t] THEN {TRUE, FALSE} ELSE {logExists})
    /\ UNCHANGED <<logHeaders, logRows, audit, lastRow, faults>>
    /\ Release(t)

\* thread t is inside log_append for the call at position p
InLog(t, p) == pc[t] = p /\ t \in lock

Goto(t, p) == pc' = [pc EXCEPT ![t] = p]

\* -------------------------------------------------------------- main()
NoFault == UNCHANGED <<faults, logFaults>>

\* an exception leaves main outside the with block of the pool
MainRaise == Goto(MAIN, "crashed")

\* log_print("INFO", "MAIN", "Starting automated report generation...")
MainInfo ==
    /\ InLog(MAIN, "main_info_log")
    /\ \/ WriteRow(MAIN, "INFO", 0) /\ Goto(MAIN, "get_secret")
       \/ WriteFails(MAIN) /\ MainRaise
    /\ UNCHANGED <<envVars, clock, poolVars, ts, dbVars, exc, outVars>>

\* get_secret: the try block, up to the log_print of the except block
GetSecret ==
    /\ pc[MAIN] = "get_secret"
    /\ Goto(MAIN, IF secretSrc = "aws" THEN "list_check" ELSE "secret_warn_log")
    /\ NoFault
    /\ UNCHANGED <<envVars, clock, lockVars, logVars, poolVars, ts, dbVars, exc,
                   outVars>>

\* get_secret: the except block
SecretFallback ==
    /\ InLog(MAIN, "secret_warn_log")
    /\ \/ /\ WriteRow(MAIN, "WARN", 0)
          /\ Goto(MAIN, IF secretSrc = "local" THEN "list_check" ELSE "crashed")
       \/ WriteFails(MAIN) /\ MainRaise
    /\ UNCHANGED <<envVars, clock, poolVars, ts, dbVars, exc, outVars>>

\* if not QUERY_LIST_FILE.exists(): ... else jobs = [...]
ListCheck ==
    /\ pc[MAIN] = "list_check"
    /\ Goto(MAIN, IF listExists THEN "main_found_log" ELSE "main_fatal_log")
    /\ NoFault
    /\ UNCHANGED <<envVars, clock, lockVars, logVars, poolVars, ts, dbVars, exc,
                   outVars>>

\* log_print("FATAL", ...); return
MainFatal ==
    /\ InLog(MAIN, "main_fatal_log")
    /\ \/ WriteRow(MAIN, "FATAL", 0) /\ Goto(MAIN, "done")
       \/ WriteFails(MAIN) /\ MainRaise
    /\ UNCHANGED <<envVars, clock, poolVars, ts, dbVars, exc, outVars>>

\* log_print("INFO", "MAIN", f"Found {len(jobs)} jobs: {jobs}")
MainFound ==
    /\ InLog(MAIN, "main_found_log")
    /\ \/ /\ WriteRow(MAIN, "INFO", 0)
          /\ Goto(MAIN, IF N = 0 THEN "collect" ELSE "submit")
       \/ WriteFails(MAIN) /\ MainRaise
    /\ UNCHANGED <<envVars, clock, poolVars, ts, dbVars, exc, outVars>>

\* executor.submit(run_one_job, job, secrets), once per list entry
Submit ==
    /\ pc[MAIN] = "submit"
    /\ submitted < N
    /\ submitted' = submitted + 1
    /\ pc' = [pc EXCEPT ![submitted + 1] = "queued",
                        ![MAIN] = IF submitted + 1 = N THEN "collect" ELSE "submit"]
    /\ NoFault
    /\ UNCHANGED <<envVars, clock, lockVars, logVars, current, collected, ts,
                   dbVars, exc, outVars>>

\* for future in as_completed(futures): job = futures[future]; future.result()
\* and, when no future is left, the end of the with block
Collect ==
    /\ pc[MAIN] = "collect"
    /\ \/ \E j \in Runs \ collected :
            /\ Done(j)
            /\ current' = j
            /\ Goto(MAIN, IF Returned(j) THEN "thread_log" ELSE "thread_err_log")
       \/ /\ collected = Runs
          /\ Goto(MAIN, "summary_log")
          /\ UNCHANGED current
    /\ NoFault
    /\ UNCHANGED <<envVars, clock, lockVars, logVars, submitted, collected, ts,
                   dbVars, exc, outVars>>

\* try: future.result(); log_print("THREAD", job, "Completed.")
ThreadLog ==
    /\ InLog(MAIN, "thread_log")
    /\ \/ /\ WriteRow(MAIN, "THREAD", current)
          /\ collected' = collected \cup {current}
          /\ current' = 0
          /\ Goto(MAIN, "collect")
       \/ /\ WriteFails(MAIN)
          /\ Goto(MAIN, "thread_err_log")
          /\ UNCHANGED <<current, collected>>
    /\ UNCHANGED <<envVars, clock, submitted, ts, dbVars, exc, outVars>>

\* except Exception as e: log_print("THREAD-ERR", job, ...)
ThreadErrLog ==
    /\ InLog(MAIN, "thread_err_log")
    /\ \/ /\ WriteRow(MAIN, "THREAD-ERR", current)
          /\ collected' = collected \cup {current}
          /\ current' = 0
          /\ Goto(MAIN, "collect")
       \/ /\ WriteFails(MAIN)
          /\ Goto(MAIN, "unwinding")
          /\ UNCHANGED <<current, collected>>
    /\ UNCHANGED <<envVars, clock, submitted, ts, dbVars, exc, outVars>>

\* an exception leaves the with block: ThreadPoolExecutor.__exit__ waits for
\* every submitted job, then the exception leaves main
Unwind ==
    /\ pc[MAIN] = "unwinding"
    /\ \A j \in Runs : Done(j)
    /\ Goto(MAIN, "crashed")
    /\ NoFault
    /\ UNCHANGED <<envVars, clock, lockVars, logVars, poolVars, ts, dbVars, exc,
                   outVars>>

\* log_print("SUMMARY", "MAIN", "All jobs completed successfully.")
Summary ==
    /\ InLog(MAIN, "summary_log")
    /\ \/ WriteRow(MAIN, "SUMMARY", 0) /\ Goto(MAIN, "done")
       \/ WriteFails(MAIN) /\ MainRaise
    /\ UNCHANGED <<envVars, clock, poolVars, ts, dbVars, exc, outVars>>

\* ------------------------------------------------------------ the pool
Queued == {j \in Runs : pc[j] = "queued"}
InProgress == {j \in Runs : Running(j)}
Min(S) == CHOOSE x \in S : \A y \in S : x <= y

\* ThreadPoolExecutor(max_workers=5): a pool thread runs one work item at a
\* time, and there are at most max_workers pool threads
NoWorkerLimit == TRUE

WorkerFree == Cardinality(InProgress) < max_workers

\* a free pool thread takes the oldest queued work item and enters
\* run_one_job: job_id = f"{sql_filename} {now_ts()}"
Take ==
    /\ Queued # {}
    /\ WorkerFree
    /\ LET j == Min(Queued) IN
          /\ ts' = [ts EXCEPT ![j] = clock]
          /\ Goto(j, "job_start_log")
    /\ NoFault
    /\ UNCHANGED <<envVars, clock, lockVars, logVars, poolVars, dbVars, exc,
                   outVars>>

\* the clock of now_ts.  Only the second a job_id is made in is observed, and
\* only the differences between those seconds matter: second 0 is the one the
\* first job starts in.
Tick ==
    /\ clock < MaxClock
    /\ Queued # {}
    /\ \E j \in Runs : Started(j)
    /\ clock' = clock + 1
    /\ NoFault
    /\ UNCHANGED <<envVars, pc, lockVars, logVars, poolVars, ts, dbVars, exc,
                   outVars>>

\* ---------------------------------------------------------- run_one_job
\* a collaborator call raises
Fault == faults + logFaults < MaxFaults /\ faults' = faults + 1 /\ UNCHANGED logFaults

JobId(j) == <<jobs[j], ts[j]>>
Artifact(j, ext) == <<jobs[j], ts[j], ext>>
Handling(j) == exc[j] # "none"

\* an exception raised in the try block of run_one_job reaches
\* `except Exception as e`; one raised in the except block leaves run_one_job
Catch(j, what) ==
    /\ Goto(j, IF Handling(j) THEN "raised" ELSE "job_error_log")
    /\ exc' = [exc EXCEPT ![j] = IF Handling(j) THEN @ ELSE what]

\* an exception raised outside the try statement leaves run_one_job
Escape(j) ==
    /\ Goto(j, "raised")
    /\ UNCHANGED exc

\* log_print("JOB-START", job_id, "Starting job..."), before the try block
JobStart(j) ==
    /\ InLog(j, "job_start_log")
    /\ \/ WriteRow(j, "JOB-START", j) /\ Goto(j, "resolve") /\ UNCHANGED exc
       \/ WriteFails(j) /\ Escape(j)
    /\ UNCHANGED <<envVars, clock, poolVars, ts, dbVars, outVars>>

\* sql_path.exists()
SqlPresent(j) == jobs[j] \in Scripts

\* if not sql_path.exists(): raise FileNotFoundError(...)
\* sql_text = sql_path.read_text(...); the call of execute_query
Resolve(j) ==
    /\ pc[j] = "resolve"
    /\ \/ /\ ~SqlPresent(j)
          /\ Catch(j, "FileNotFound")
          /\ NoFault
          /\ UNCHANGED queries
       \/ /\ SqlPresent(j)
          /\ \/ /\ Goto(j, "db_connect_log")
                /\ queries' = [queries EXCEPT ![j] = @ + 1]
                /\ NoFault
                /\ UNCHANGED exc
             \/ Fault /\ Catch(j, "read") /\ UNCHANGED queries
    /\ UNCHANGED <<envVars, clock, lockVars, logVars, poolVars, ts, pending, con,
                   cur, outVars>>

\* ---------------------------------------------------------- execute_query
\* log_print("DB-CONNECT", "THREAD", "Opening DB connection")
DbConnectLog(j) ==
    /\ InLog(j, "db_connect_log")
    /\ \/ WriteRow(j, "DB-CONNECT", 0) /\ Goto(j, "db_run") /\ UNCHANGED exc
       \/ WriteFails(j) /\ Catch(j, "log")
    /\ UNCHANGED <<envVars, clock, poolVars, ts, dbVars, outVars>>

\* con = oracledb.connect(dsn=DB_DSN); cur = con.cursor()
\* try: cur.execute(sql_text) ... df = pd.DataFrame(rows, columns=cols)
DbRun(j) ==
    /\ pc[j] = "db_run"
    /\ \/ \* oracledb.connect raises
          /\ Fault /\ Catch(j, "query")
          /\ UNCHANGED <<con, cur, pending>>
       \/ \* con.cursor() raises, before the try statement
          /\ Fault /\ Catch(j, "query")
          /\ con' = [con EXCEPT ![j] = "open"]
          /\ UNCHANGED <<cur, pending>>
       \/ \* cur.execute or cur.fetchall raises: on to the finally block
          /\ Fault
          /\ con' = [con EXCEPT ![j] = "open"]
          /\ cur' = [cur EXCEPT ![j] = "open"]
          /\ pending' = [pending EXCEPT ![j] = "query"]
          /\ Goto(j, "db_finally")
          /\ UNCHANGED exc
       \/ /\ con' = [con EXCEPT ![j] = "open"]
          /\ cur' = [cur EXCEPT ![j] = "open"]
          /\ Goto(j, "db_exec_log")
          /\ NoFault
          /\ UNCHANGED <<exc, pending>>
    /\ UNCHANGED <<envVars, clock, lockVars, logVars, poolVars, ts, queries, outVars>>

\* log_print("DB-EXEC", "THREAD", ...); return df
DbExecLog(j) ==
    /\ InLog(j, "db_exec_log")
    /\ \/ WriteRow(j, "DB-EXEC", 0) /\ UNCHANGED pending
       \/ WriteFails(j) /\ pending' = [pending EXCEPT ![j] = "log"]
    /\ Goto(j, "db_finally")
    /\ UNCHANGED <<envVars, clock, poolVars, ts, con, cur, queries, exc, outVars>>

\* finally: cur.close(); con.close()
DbFinally(j) ==
    /\ pc[j] = "db_finally"
    /\ \/ /\ cur' = [cur EXCEPT ![j] = "closed"]
          /\ con' = [con EXCEPT ![j] = "closed"]
          /\ Goto(j, "db_close_log")
          /\ NoFault
          /\ UNCHANGED <<exc, pending>>
       \/ \* cur.close() raises: con.close() is not reached
          /\ Fault /\ Catch(j, "query")
          /\ pending' = [pending EXCEPT ![j] = "none"]
          /\ UNCHANGED <<con, cur>>
       \/ \* con.close() raises
          /\ Fault /\ Catch(j, "query")
          /\ cur' = [cur EXCEPT ![j] = "closed"]
          /\ pending' = [pending EXCEPT ![j] = "none"]
          /\ UNCHANGED con
    /\ UNCHANGED <<envVars, clock, lockVars, logVars, poolVars, ts, queries, outVars>>

\* log_print("DB-CLOSE", "THREAD", "Connection closed."), then the return or
\* the exception that entered the finally block
DbCloseLog(j) ==
    /\ InLog(j, "db_close_log")
    /\ \/ /\ WriteRow(j, "DB-CLOSE", 0)
          /\ IF pending[j] # "none" THEN Catch(j, pending[j])
                                    ELSE Goto(j, "to_csv") /\ UNCHANGED exc
       \/ WriteFails(j) /\ Catch(j, "log")
    /\ pending' = [pending EXCEPT ![j] = "none"]
    /\ UNCHANGED <<envVars, clock, poolVars, ts, con, cur, queries, outVars>>

\* -------------------------------------------- run_one_job: export and mail
\* csv_file = OUTPUT_DIR / f"{job_id}.csv"; df.to_csv(csv_file, index=False)
ToCsv(j) ==
    /\ pc[j] = "to_csv"
    /\ \/ /\ fs' = fs \cup {Artifact(j, "csv")}
          /\ wrote' = [wrote EXCEPT ![j] = @ \cup {"csv"}]
          /\ Goto(j, "file_csv_log")
          /\ NoFault
          /\ UNCHANGED exc
       \/ Fault /\ Catch(j, "export") /\ UNCHANGED <<fs, wrote>>
    /\ UNCHANGED <<envVars, clock, lockVars, logVars, poolVars, ts, dbVars, mails>>

\* log_print("FILE-CSV", job_id, ...)
FileCsvLog(j) ==
    /\ InLog(j, "file_csv_log")
    /\ \/ WriteRow(j, "FILE-CSV", j) /\ Goto(j, "to_zip") /\ UNCHANGED exc
       \/ WriteFails(j) /\ Catch(j, "log")
    /\ UNCHANGED <<envVars, clock, poolVars, ts, dbVars, outVars>>

\* with zipfile.ZipFile(zip_file, "w", ...) as zf: zf.write(csv_file, ...)
ToZip(j) ==
    /\ pc[j] = "to_zip"
    /\ \/ /\ fs' = fs \cup {Artifact(j, "zip")}
          /\ wrote' = [wrote EXCEPT ![j] = @ \cup {"zip"}]
          /\ Goto(j, "file_zip_log")
          /\ NoFault
          /\ UNCHANGED exc
       \/ Fault /\ Catch(j, "export") /\ UNCHANGED <<fs, wrote>>
    /\ UNCHANGED <<envVars, clock, lockVars, logVars, poolVars, ts, dbVars, mails>>

\* log_print("FILE-ZIP", job_id, ...), then the call of send_mail_gmail_api
FileZipLog(j) ==
    /\ InLog(j, "file_zip_log")
    /\ \/ WriteRow(j, "FILE-ZIP", j) /\ Goto(j, "send_mail") /\ UNCHANGED exc
       \/ WriteFails(j) /\ Catch(j, "log")
    /\ UNCHANGED <<envVars, clock, poolVars, ts, dbVars, outVars>>

\* ---------------------------------------------------- send_mail_gmail_api
\* the recipients argument: secrets["RECEIVERS"] in the try block of
\* run_one_job, secrets["ERROR_RECEIVERS"] in its except block
Recipients(j) == IF Handling(j) THEN "ERROR_RECEIVERS" ELSE "RECEIVERS"

\* the call under way is the last element of mails[j]
SetMail(j, field, v) ==
    mails' = [mails EXCEPT ![j] = [@ EXCEPT ![Len(@)] = [@ EXCEPT ![field] = v]]]

\* the except block falls through to the SUCCESS record
AfterMailIsSuccess(j) == "success_log"

\* the statement after the call of send_mail_gmail_api; its result is not used
AfterMail(j) == IF Handling(j) THEN "fail_log" ELSE "success_log"

\* creds = Credentials(...); creds.refresh(Request()); service = build(...);
\* msg = MIMEMultipart() ...; if attachment_path and Path(...).exists(): ...
MailPrepare(j) ==
    /\ pc[j] = "send_mail"
    /\ mails' = [mails EXCEPT ![j] =
                    Append(@, [to |-> Recipients(j), sent |-> FALSE, ret |-> "none"])]
    /\ \/ /\ Goto(j, IF ~Handling(j) /\ Artifact(j, "zip") \in fs
                       THEN "mail_attach_log" ELSE "mail_send")
          /\ NoFault
       \/ Fault /\ Goto(j, "mail_error_log")
    /\ UNCHANGED <<envVars, clock, lockVars, logVars, poolVars, ts, dbVars,
                   exc, fs, wrote>>

\* log_print("MAIL", job_label, f"Attached file {attachment_path}")
MailAttachLog(j) ==
    /\ InLog(j, "mail_attach_log")
    /\ \/ WriteRow(j, "MAIL", 0) /\ Goto(j, "mail_send")
       \/ WriteFails(j) /\ Goto(j, "mail_error_log")
    /\ UNCHANGED <<envVars, clock, poolVars, ts, dbVars, exc, outVars>>

\* service.users().messages().send(userId="me", body={"raw": raw}).execute()
MailSend(j) ==
    /\ pc[j] = "mail_send"
    /\ \/ SetMail(j, "sent", TRUE) /\ Goto(j, "mail_sent_log") /\ NoFault
       \/ Fault /\ Goto(j, "mail_error_log") /\ UNCHANGED mails
    /\ UNCHANGED <<envVars, clock, lockVars, logVars, poolVars, ts, dbVars,
                   exc, fs, wrote>>

\* log_print("MAIL-SENT", job_label, ...); return True
MailSentLog(j) ==
    /\ InLog(j, "mail_sent_log")
    /\ \/ /\ WriteRow(j, "MAIL-SENT", 0)
          /\ SetMail(j, "ret", "True")
          /\ Goto(j, AfterMail(j))
       \/ WriteFails(j) /\ Goto(j, "mail_error_log") /\ UNCHANGED mails
    /\ UNCHANGED <<envVars, clock, poolVars, ts, dbVars, exc, fs, wrote>>

\* except Exception as e: log_print("MAIL-ERROR", job_label, ...); return False
MailErrorLog(j) ==
    /\ InLog(j, "mail_error_log")
    /\ \/ /\ WriteRow(j, "MAIL-ERROR", 0)
          /\ SetMail(j, "ret", "False")
          /\ Goto(j, AfterMail(j))
          /\ UNCHANGED exc
       \/ WriteFails(j) /\ SetMail(j, "ret", "raised") /\ Catch(j, "log")
    /\ UNCHANGED <<envVars, clock, poolVars, ts, dbVars, fs, wrote>>

\* ------------------------------------------- run_one_job: terminal records
\* log_append(["SUCCESS", job_id, now_ts(), "Job completed successfully"])
SuccessLog(j) ==
    /\ InLog(j, "success_log")
    /\ \/ WriteRow(j, "SUCCESS", j) /\ Goto(j, "job_done_log") /\ UNCHANGED exc
       \/ WriteFails(j) /\ Catch(j, "log")
    /\ UNCHANGED <<envVars, clock, poolVars, ts, dbVars, outVars>>

\* log_print("JOB-DONE", job_id, "Completed successfully."), the last
\* statement of the try block
JobDoneLog(j) ==
    /\ InLog(j, "job_done_log")
    /\ \/ WriteRow(j, "JOB-DONE", j) /\ Goto(j, "returned") /\ UNCHANGED exc
       \/ WriteFails(j) /\ Catch(j, "log")
    /\ UNCHANGED <<envVars, clock, poolVars, ts, dbVars, outVars>>

\* except Exception as e: tb = ...; log_print("JOB-ERROR", job_id, ...)
JobErrorLog(j) ==
    /\ InLog(j, "job_error_log")
    /\ \/ WriteRow(j, "JOB-ERROR", j) /\ Goto(j, "send_mail") /\ UNCHANGED exc
       \/ WriteFails(j) /\ Escape(j)
    /\ UNCHANGED <<envVars, clock, poolVars, ts, dbVars, outVars>>

\* log_append(["FAIL", job_id, now_ts(), str(e)]), the last statement of the
\* except block
FailLog(j) ==
    /\ InLog(j, "fail_log")
    /\ \/ WriteRow(j, "FAIL", j) /\ Goto(j, "returned") /\ UNCHANGED exc
       \/ WriteFails(j) /\ Escape(j)
    /\ UNCHANGED <<envVars, clock, poolVars, ts, dbVars, outVars>>

\* ------------------------------------------------------- specifications
JobLists(n) == UNION {[1..k -> Names] : k \in 0..n}

\* the state when main is entered, for a job list `list`
Start(list) ==
    /\ jobs = list
    /\ runs = 1
    /\ clock = 0
    /\ faults = 0
    /\ logFaults = 0
    /\ pc = [t \in 0..Len(list) |-> IF t = MAIN THEN "main_info_log" ELSE "unsubmitted"]
    /\ lock = {}
    /\ write_header = [t \in 0..Len(list) |-> FALSE]
    /\ pos = [t \in 0..Len(list) |-> 0]
    /\ logHeaders = (IF logExists THEN 1 ELSE 0)
    /\ logRows = 0
    /\ audit = [t \in 0..Len(list) |-> <<>>]
    /\ lastRow = <<"none", 0>>
    /\ submitted = 0
    /\ ts = [j \in 1..Len(list) |-> 0]
    /\ pending = [j \in 1..Len(list) |-> "none"]
    /\ exc = [j \in 1..Len(list) |-> "none"]
    /\ con = [j \in 1..Len(list) |-> "none"]
    /\ cur = [j \in 1..Len(list) |-> "none"]
    /\ queries = [j \in 1..Len(list) |-> 0]
    /\ fs = {}
    /\ wrote = [j \in 1..Len(list) |-> {}]
    /\ mails = [j \in 1..Len(list) |-> <<>>]
    /\ current = 0
    /\ collected = {}

\* job lists of up to MaxJobs lines, in an environment where at most
\* MaxFaults calls fail
Init ==
    /\ listExists \in BOOLEAN
    /\ secretSrc \in {"aws", "local", "none"}
    /\ logExists \in BOOLEAN
    /\ logRoom = Unlimited
    /\ \E list \in JobLists(MaxJobs) : Start(list)

\* a job list longer than the pool, on a disk that is full once main has
\* written its rows: every later log write raises
LongRun ==
    /\ listExists = TRUE
    /\ secretSrc = "aws"
    /\ logExists \in BOOLEAN
    /\ logRoom = RowsBeforeDispatch
    /\ \E name \in Names : Start([i \in 1..(max_workers + PoolExtra) |-> name])

\* the long runs, and the job lists of at most one line in the environment
\* of Init
InitPool ==
    \/ /\ listExists \in BOOLEAN
       /\ secretSrc \in {"aws", "local", "none"}
       /\ logExists \in BOOLEAN
       /\ logRoom = Unlimited
       /\ \E list \in JobLists(1) : Start(list)
    \/ LongRun

Next ==
    \/ MainInfo \/ GetSecret \/ SecretFallback \/ ListCheck \/ MainFatal
    \/ MainFound \/ Submit \/ Collect \/ ThreadLog \/ ThreadErrLog \/ Unwind
    \/ Summary
    \/ Take
    \/ Tick
    \/ \E t \in Threads : LogEnter(t)
    \/ \E j \in Runs : JobStart(j)
    \/ \E j \in Runs : Resolve(j)
    \/ \E j \in Runs : DbConnectLog(j)
    \/ \E j \in Runs : DbRun(j)
    \/ \E j \in Runs : DbExecLog(j)
    \/ \E j \in Runs : DbFinally(j)
    \/ \E j \in Runs : DbCloseLog(j)
    \/ \E j \in Runs : ToCsv(j)
    \/ \E j \in Runs : FileCsvLog(j)
    \/ \E j \in Runs : ToZip(j)
    \/ \E j \in Runs : FileZipLog(j)
    \/ \E j \in Runs : MailPrepare(j)
    \/ \E j \in Runs : MailAttachLog(j)
    \/ \E j \in Runs : MailSend(j)
    \/ \E j \in Runs : MailSentLog(j)
    \/ \E j \in Runs : MailErrorLog(j)
    \/ \E j \in Runs : SuccessLog(j)
    \/ \E j \in Runs : JobDoneLog(j)
    \/ \E j \in Runs : JobErrorLog(j)
    \/ \E j \in Runs : FailLog(j)

Spec == Init /\ [][Next]_vars

SpecPool == InitPool /\ [][Next]_vars

\* the process has ended and the program is started again, in the same
\* directory: logs.csv and Output/ are as the earlier run left them, and
\* everything else is as when main is entered
Rerun ==
    /\ runs < MaxRuns
    /\ pc[MAIN] \in {"done", "crashed"}
    /\ \A j \in Runs : ~Running(j)
    /\ lock = {}
    /\ runs' = runs + 1
    /\ pc' = [t \in Threads |-> IF t = MAIN THEN "main_info_log" ELSE "unsubmitted"]
    /\ audit' = [t \in Threads |-> <<>>]
    /\ submitted' = 0
    /\ ts' = [j \in Runs |-> 0]
    /\ pending' = [j \in Runs |-> "none"]
    /\ exc' = [j \in Runs |-> "none"]
    /\ con' = [j \in Runs |-> "none"]
    /\ cur' = [j \in Runs |-> "none"]
    /\ queries' = [j \in Runs |-> 0]
    /\ wrote' = [j \in Runs |-> {}]
    /\ mails' = [j \in Runs |-> <<>>]
    /\ current' = 0
    /\ collected' = {}
    /\ UNCHANGED <<jobs, listExists, secretSrc, logRoom, clock, faults, logFaults,
                   lockVars, logExists, logHeaders, logRows, lastRow, fs>>

NextRerun == Next \/ Rerun

\* the runs of SpecPool, each followed by further runs of the program on the
\* log it left
SpecRerun == InitPool /\ [][NextRerun]_vars

\* SpecPool under fair scheduling: every collaborator call returns or raises,
\* and a thread that can take a step is not held back forever, so the program
\* does not stop while some step is possible
SpecPoolFair == InitPool /\ [][Next]_vars /\ WF_vars(Next)

\* ------------------------------------------------------------ properties
\* the rows <<status, k>> among the rows thread t wrote
RowsOf(t, status, k) == {i \in 1..Len(audit[t]) : audit[t][i] = <<status, k>>}
Has(t, status, k) == RowsOf(t, status, k) # {}

\* the terminal audit records of run j
Successes(j) == Cardinality(RowsOf(j, "SUCCESS", j))
Fails(j) == Cardinality(RowsOf(j, "FAIL", j))
Terminals(j) == Successes(j) + Fails(j)

RECURSIVE TerminalsUpTo(_)
TerminalsUpTo(n) == IF n = 0 THEN 0 ELSE Terminals(n) + TerminalsUpTo(n - 1)

\* the calls of send_mail_gmail_api run j made with the recipient list `to`
MailsTo(j, to) == {i \in 1..Len(mails[j]) : mails[j][i].to = to}

\* no write to logs.csv has raised
LogSound == logFaults = 0 /\ logRoom = Unlimited

MainEnded == pc[MAIN] \in {"done", "crashed"}
SummaryWritten == Has(MAIN, "SUMMARY", 0)

\* C1: every run_one_job call that has returned or raised has appended
\* exactly one terminal record (SUCCESS or FAIL) for its job.
C1_OneTerminalRecord ==
    \A j \in Runs : Done(j) => Terminals(j) = 1

\* C1, first half: a finished run has at least one terminal record.
C1_SomeTerminalRecord ==
    \A j \in Runs : Done(j) => Terminals(j) >= 1

\* C1, second half: no run has both a SUCCESS and a FAIL record.
C1_NotBothRecords ==
    \A j \in Runs : ~(Successes(j) >= 1 /\ Fails(j) >= 1)

\* C1 in the runs where no log write raises
C1_WhenLogSound ==
    LogSound => C1_OneTerminalRecord

\* C2: main submits one run per list entry, and when the SUMMARY event is
\* recorded the log holds exactly N terminal records.
C2_TerminalPerJobAtSummary ==
    /\ pc[MAIN] \in {"collect", "thread_log", "thread_err_log", "summary_log"}
          => submitted = N
    /\ SummaryWritten => submitted = N /\ TerminalsUpTo(N) = N

\* C2 in the runs where no log write raises
C2_WhenLogSound ==
    LogSound => C2_TerminalPerJobAtSummary

\* C3: a run whose SQL file is missing never calls execute_query, writes no
\* artifact, sends nothing to RECEIVERS, and ends having called
\* send_mail_gmail_api exactly once, with ERROR_RECEIVERS, and recorded FAIL.
C3_MissingSqlFails ==
    \A j \in Runs : ~SqlPresent(j) =>
        /\ queries[j] = 0
        /\ wrote[j] = {}
        /\ MailsTo(j, "RECEIVERS") = {}
        /\ Done(j) =>
              /\ Cardinality(MailsTo(j, "ERROR_RECEIVERS")) = 1
              /\ Len(mails[j]) = 1
              /\ Fails(j) = 1
              /\ Successes(j) = 0

\* C3 in the runs where no log write raises
C3_WhenLogSound ==
    LogSound => C3_MissingSqlFails

\* C4: a run whose SQL read, query or export raised records FAIL, attempts
\* the notification to ERROR_RECEIVERS and returns normally; the pool logs
\* THREAD, never THREAD-ERR, for it.
C4_JobErrorsAreContained ==
    \A j \in Runs : exc[j] \in {"read", "query", "export"} =>
        /\ ~Raised(j)
        /\ ~Has(MAIN, "THREAD-ERR", j)
        /\ Done(j) => Fails(j) = 1 /\ MailsTo(j, "ERROR_RECEIVERS") # {}
        /\ j \in collected => Has(MAIN, "THREAD", j)

\* C4 in the runs where no log write raises
C4_WhenLogSound ==
    LogSound => C4_JobErrorsAreContained

\* the first send_mail_gmail_api call of run j, made with RECEIVERS after the
\* query and the export succeeded, returned False
SuccessMailFailed(j) ==
    /\ Len(mails[j]) >= 1
    /\ mails[j][1].to = "RECEIVERS"
    /\ mails[j][1].ret = "False"

\* C5: a run whose query and export succeeded and whose success notification
\* returned False ends with MAIL-ERROR logged, one SUCCESS record, no FAIL
\* record and no error notification.
C5_MailFailureKeepsSuccess ==
    \A j \in Runs : SuccessMailFailed(j) =>
        /\ Has(j, "MAIL-ERROR", 0)
        /\ Fails(j) = 0
        /\ MailsTo(j, "ERROR_RECEIVERS") = {}
        /\ Done(j) => Returned(j) /\ Successes(j) = 1

\* C5 in the runs where no log write raises
C5_WhenLogSound ==
    LogSound => C5_MailFailureKeepsSuccess

\* main got as far as the with block of the pool: it has logged "Found N jobs"
ReachedDispatch == Cardinality(RowsOf(MAIN, "INFO", 0)) = 2

\* main left the as_completed loop by an exception
LoopAborted == pc[MAIN] = "unwinding" \/ (pc[MAIN] = "crashed" /\ current # 0)

\* C6: when an exception has escaped run_one_job for some job, main does not
\* leave its loop by an exception: it records THREAD-ERR for that job, every
\* job is collected, every job that returned has its terminal record, and
\* main gets to the SUMMARY call.
C6_PoolSurvivesEscape ==
    (\E j \in Runs : Raised(j)) =>
        /\ ~LoopAborted
        /\ \A j \in collected : Raised(j) => Has(MAIN, "THREAD-ERR", j)
        /\ MainEnded => /\ collected = Runs
                        /\ \A j \in Runs : Returned(j) => Terminals(j) >= 1

\* the rows of the SUMMARY event
Summaries == Cardinality(RowsOf(MAIN, "SUMMARY", 0))

\* C7, the order: SUMMARY is recorded at most once, when every job is done
\* and has its THREAD or THREAD-ERR row, and it is the last row of the log.
C7_SummaryIsLast ==
    /\ Summaries <= 1
    /\ SummaryWritten =>
          /\ \A j \in Runs : /\ Done(j)
                             /\ Has(MAIN, "THREAD", j) \/ Has(MAIN, "THREAD-ERR", j)
          /\ lastRow = <<"SUMMARY", 0>>
          /\ \A t \in Threads : pc[t] \notin LogSites

\* C7: the order, and a run that reached dispatch and has ended has recorded
\* its SUMMARY (unless the write of the SUMMARY row itself raised).
C7_OneSummaryAfterAllJobs ==
    /\ C7_SummaryIsLast
    /\ ReachedDispatch /\ MainEnded /\ ~(pc[MAIN] = "crashed" /\ collected = Runs)
          => Summaries = 1

RECURSIVE RowsWritten(_)
RowsWritten(t) == IF t < 0 THEN 0 ELSE Len(audit[t]) + RowsWritten(t - 1)

\* C8: at most one thread is inside the `with log_lock` block, and the log
\* holds one row for every log_append call that has written its row.
C8_LogAppendIsExclusive ==
    /\ Cardinality(lock) <= 1
    /\ logRows = RowsWritten(N)

\* two threads that have both written rows are in log_append calls, one of
\* them inside the block and the other waiting for the lock
C8_Contended ==
    \E t \in lock : \E u \in Threads \ lock :
        /\ pc[u] \in LogSites
        /\ Len(audit[t]) >= 1
        /\ Len(audit[u]) >= 1

\* C9: at most max_workers runs are in progress; jobs start in list order;
\* job j has started only if at least j - max_workers earlier jobs are done.
C9_PoolBound ==
    /\ Cardinality(InProgress) <= max_workers
    /\ \A j \in Runs : Started(j) =>
          /\ \A k \in 1..(j - 1) : Started(k)
          /\ Cardinality({k \in 1..(j - 1) : Done(k)}) >= j - max_workers

\* a job beyond the fifth has started, and max_workers runs are in progress
C9_SixthStarted ==
    /\ \E j \in Runs : j > max_workers /\ Started(j)
    /\ Cardinality(InProgress) = max_workers

\* execute_query is on the stack of run j
InQuery(j) ==
    pc[j] \in {"db_connect_log", "db_run", "db_exec_log", "db_finally", "db_close_log"}

\* C10: outside execute_query, no connection and no cursor of the run is open.
C10_ConnectionsReleased ==
    \A j \in Runs : ~InQuery(j) => con[j] # "open" /\ cur[j] # "open"

\* C10 for the runs in which neither con.cursor(), cur.close() nor
\* con.close() raised: a failed execute or fetch still closes both.
C10_ClosedAfterQueryError ==
    \A j \in Runs : Done(j) /\ Has(j, "DB-CLOSE", 0) => con[j] = "closed" /\ cur[j] = "closed"

\* the calls of send_mail_gmail_api run j has made
MailCalls(j) == 1..Len(mails[j])

\* C11: no call of send_mail_gmail_api raises to its caller, and a call
\* returns True only if the message was sent.
C11_MailNeverRaises ==
    \A j \in Runs : \A i \in MailCalls(j) :
        /\ mails[j][i].ret # "raised"
        /\ mails[j][i].ret = "True" => mails[j][i].sent

\* C11 in the runs where no log write raises
C11_WhenLogSound ==
    LogSound => C11_MailNeverRaises

\* C12: a run whose SQL file is present, in a program run where no
\* collaborator call (read, query, export, mail) has raised, ends Succeeded
\* whatever its log writes did: it returns normally, never enters its except
\* block, records no FAIL and sends no error notification.
C12_LogFailureIsHarmless ==
    \A j \in Runs : SqlPresent(j) /\ faults = 0 =>
        /\ ~Raised(j)
        /\ ~Handling(j)
        /\ Fails(j) = 0
        /\ MailsTo(j, "ERROR_RECEIVERS") = {}

\* C12 in the runs where no log write raises: with no failure at all, a run
\* whose SQL file is present ends with its SUCCESS record.
C12_SucceedsWhenNothingFails ==
    \A j \in Runs : SqlPresent(j) /\ faults = 0 /\ LogSound =>
        /\ C12_LogFailureIsHarmless
        /\ Done(j) => Returned(j) /\ Successes(j) = 1

\* the secrets bundle is unavailable from AWS and from local_secrets.json, or
\* querymod.txt is missing
FatalCondition == secretSrc = "none" \/ ~listExists

\* nothing of the listed jobs has happened
NothingDispatched ==
    /\ submitted = 0
    /\ \A j \in Runs : /\ ~Started(j)
                       /\ con[j] = "none"
                       /\ queries[j] = 0
                       /\ mails[j] = <<>>
    /\ ~SummaryWritten

\* C13, first half: under a fatal condition no job is ever dispatched, no
\* connection opened, no mail sent and no SUMMARY recorded.
C13_FatalBeforeDispatch ==
    FatalCondition => NothingDispatched

\* C13: the first half, and a run of main that has ended without submitting
\* every listed job ended so under one of the two fatal conditions.
C13_OnlyFatalConditions ==
    /\ C13_FatalBeforeDispatch
    /\ MainEnded /\ submitted < N => FatalCondition

\* C13 in the runs where no log write raises
C13_WhenLogSound ==
    LogSound => C13_OnlyFatalConditions

\* main has ended under a fatal condition, with jobs listed
C13_EndedFatal ==
    FatalCondition /\ MainEnded /\ N > 0

\* the files run j has written under Output/
FilesOf(j) == {Artifact(j, ext) : ext \in wrote[j]}

\* C14: two runs of one program run, also two runs of the same job name,
\* have different job_id values and share no artifact file.
C14_RunsAreDistinct ==
    \A j, k \in Runs : j # k /\ Started(j) /\ Started(k) =>
        /\ JobId(j) # JobId(k)
        /\ FilesOf(j) \cap FilesOf(k) = {}

\* two runs with the same job_id have both written their CSV and their ZIP:
\* one pair of files under Output/ holds what both runs wrote
C14_SamePairWrittenTwice ==
    \E j, k \in Runs : /\ j # k /\ JobId(j) = JobId(k)
                       /\ wrote[j] = {"csv", "zip"} /\ wrote[k] = {"csv", "zip"}
                       /\ Cardinality(fs) = 2

\* the send_mail_gmail_api calls of run j with ERROR_RECEIVERS that are over
ErrorMailsDone(j) ==
    {i \in MailsTo(j, "ERROR_RECEIVERS") : mails[j][i].ret # "none"}

\* C15: once run j is in its except block it never raises; JOB-ERROR is
\* recorded before the notification to ERROR_RECEIVERS is attempted, and the
\* notification is over before FAIL is recorded; the run ends returned, with
\* JOB-ERROR, one notification attempt and one FAIL record, also when the
\* notification returned False (then MAIL-ERROR is logged).
C15_HandlerIsFailSafe ==
    \A j \in Runs : Handling(j) =>
        /\ ~Raised(j)
        /\ MailsTo(j, "ERROR_RECEIVERS") # {} => Has(j, "JOB-ERROR", j)
        /\ Fails(j) >= 1 => ErrorMailsDone(j) # {}
        /\ \A i \in ErrorMailsDone(j) :
              mails[j][i].ret = "False" => Has(j, "MAIL-ERROR", 0)
        /\ Done(j) => /\ Has(j, "JOB-ERROR", j)
                      /\ Cardinality(ErrorMailsDone(j)) = 1
                      /\ Fails(j) = 1

\* C15 in the runs where no log write raises
C15_WhenLogSound ==
    LogSound => C15_HandlerIsFailSafe

\* a run whose escalation notification returned False has ended
C15_EscalationFailed ==
    \E j \in Runs : /\ Done(j)
                    /\ \E i \in ErrorMailsDone(j) : mails[j][i].ret = "False"

\* the place of a row in the lifecycle of run_one_job: the try block up to
\* JOB-DONE, then the except block.  Row i of `rows` was written in the except
\* block iff a JOB-ERROR row precedes it; 0: the row has no place there.
InHandlerAt(rows, i) == \E h \in 1..(i - 1) : rows[h][1] = "JOB-ERROR"

Rank(rows, i) ==
    LET status == rows[i][1] IN
    IF InHandlerAt(rows, i)
    THEN CASE status \in {"MAIL-SENT", "MAIL-ERROR"} -> 12
           [] status = "FAIL" -> 13
           [] OTHER -> 0
    ELSE CASE status = "JOB-START" -> 1
           [] status = "DB-CONNECT" -> 2
           [] status = "DB-EXEC" -> 3
           [] status = "DB-CLOSE" -> 4
           [] status = "FILE-CSV" -> 5
           [] status = "FILE-ZIP" -> 6
           [] status = "MAIL" -> 7
           [] status \in {"MAIL-SENT", "MAIL-ERROR"} -> 8
           [] status = "SUCCESS" -> 9
           [] status = "JOB-DONE" -> 10
           [] status = "JOB-ERROR" -> 11
           [] OTHER -> 0

\* every row has a place, and the places increase from each row to the next
InLifecycleOrder(rows) ==
    /\ Len(rows) >= 1 => Rank(rows, 1) > 0
    /\ \A i \in 1..(Len(rows) - 1) : Rank(rows, i) < Rank(rows, i + 1)

\* C16: every row is written at the end of the log as it is when the row is
\* written, so the rows of one run are in the file in the order the run wrote
\* them; and that order is the lifecycle JOB-START, DB-CONNECT, DB-EXEC,
\* DB-CLOSE, FILE-CSV, FILE-ZIP, MAIL, MAIL-SENT or MAIL-ERROR, SUCCESS,
\* JOB-DONE, with the rows of the except block after them.
C16_JobRowsInLifecycleOrder ==
    /\ \A t \in lock : pos[t] = logRows
    /\ \A j \in Runs : InLifecycleOrder(audit[j])

\* a run has written the ten rows of a successful lifecycle while another run
\* that has written rows is still in progress
C16_FullLifecycleInterleaved ==
    \E j, k \in Runs : /\ j # k
                       /\ Len(audit[j]) = 10
                       /\ Running(k)
                       /\ Len(audit[k]) >= 1

\* C17, the header: logs.csv never holds more than one header row, and it
\* holds the header whenever it holds a data row (the header is the first
\* row).
C17_OneHeaderFirst ==
    /\ logHeaders <= 1
    /\ logRows >= 1 => logHeaders = 1

\* C17, append-only: no step removes a row or the file, and a thread inside
\* log_append writes at the end of the file as it is now.
C17_AppendOnly ==
    /\ \A t \in lock : pos[t] = logRows
    /\ logRows >= 1 \/ logHeaders >= 1 => logExists

\* C17: the header, and append-only
C17_OneHeaderAppendOnly ==
    C17_OneHeaderFirst /\ C17_AppendOnly

\* C17, append-only, as a step property: rows and headers are only added
C17_RowsOnlyAdded ==
    [][logRows' >= logRows /\ logHeaders' >= logHeaders]_vars

\* a later run of the program has written a row into a log that an earlier
\* run left without a header
C17_RowsWithoutHeader ==
    runs > 1 /\ logRows >= 1 /\ logHeaders = 0

\* the send_mail_gmail_api calls of run j with RECEIVERS that are over
SuccessMailsDone(j) ==
    {i \in MailsTo(j, "RECEIVERS") : mails[j][i].ret \in {"True", "False"}}

\* C18, first and last part: SUCCESS is recorded only after execute_query
\* returned, the CSV and then the ZIP were written and the notification to
\* RECEIVERS, made with the ZIP present, is over; the ZIP is written only
\* after the CSV; a run that failed before the export has written no artifact.
C18_SuccessOnlyAfterSteps ==
    \A j \in Runs :
        /\ Successes(j) >= 1 =>
              /\ queries[j] = 1
              /\ Has(j, "DB-CLOSE", 0)
              /\ wrote[j] = {"csv", "zip"}
              /\ Artifact(j, "zip") \in fs
              /\ SuccessMailsDone(j) # {}
        /\ "zip" \in wrote[j] => "csv" \in wrote[j]
        /\ MailsTo(j, "RECEIVERS") # {} => wrote[j] = {"csv", "zip"}
        /\ exc[j] \in {"FileNotFound", "read", "query"} => wrote[j] = {}

\* C18: the above, and a run that has recorded FAIL has made no call of
\* send_mail_gmail_api with RECEIVERS.
C18_SuccessAndFailSteps ==
    /\ C18_SuccessOnlyAfterSteps
    /\ \A j \in Runs : Fails(j) >= 1 => MailsTo(j, "RECEIVERS") = {}

\* C18 in the runs where no log write raises
C18_WhenLogSound ==
    LogSound => C18_SuccessAndFailSteps

\* a run has recorded FAIL after its success notification was sent
C18_FailAfterSuccessMail ==
    \E j \in Runs : /\ Fails(j) >= 1
                    /\ \E i \in SuccessMailsDone(j) : mails[j][i].sent

\* every listed job has returned or raised
AllJobsDone == \A j \in Runs : Done(j)

\* main ended by the exception of its last log write, the SUMMARY row
SummaryWriteFailed == pc[MAIN] = "crashed" /\ collected = Runs

\* C19, the jobs: once main has reached dispatch every listed job eventually
\* returns or raises (none waits forever for a pool thread or for log_lock),
\* and main eventually ends.
C19_JobsAndMainEnd ==
    /\ ReachedDispatch ~> AllJobsDone
    /\ <>MainEnded

\* C19: the jobs, and once main has reached dispatch it eventually records
\* SUMMARY (or the write of the SUMMARY row itself raises).
C19_JobsEndThenSummary ==
    /\ C19_JobsAndMainEnd
    /\ ReachedDispatch ~> (SummaryWritten \/ SummaryWriteFailed)

\* C19 in the runs where no log write raises
C19_WhenLogSound ==
    /\ C19_JobsAndMainEnd
    /\ ReachedDispatch ~> (SummaryWritten \/ ~LogSound)

\* a run with more jobs than pool threads has ended, every job done
C19_LongRunEnded ==
    N > max_workers /\ MainEnded /\ AllJobsDone

\* C20, pool level: main has recorded THREAD "Completed." for a job only if
\* the run of that job has recorded a terminal record.
C20_ThreadOnlyAfterTerminal ==
    \A j \in Runs : Has(MAIN, "THREAD", j) => Terminals(j) >= 1

\* C20: the pool level, and SUMMARY "All jobs completed successfully." is
\* recorded only if every listed job has a SUCCESS record and no FAIL record.
C20_CompletionEventsTruthful ==
    /\ C20_ThreadOnlyAfterTerminal
    /\ SummaryWritten => \A j \in Runs : Successes(j) = 1 /\ Fails(j) = 0

\* SUMMARY is recorded in a run in which nothing raised but the test for the
\* SQL file, and a job has recorded FAIL
C20_SummaryAfterFail ==
    /\ SummaryWritten
    /\ faults = 0 /\ LogSound
    /\ \E j \in Runs : Fails(j) = 1 /\ Successes(j) = 0
====
